---- MODULE Spec2Model ----
(***************************************************************************)
(* GenQL (Vedadiyan/genql): the query evaluator and its function scheduler. *)
(*                                                                         *)
(* The evaluator of docs/selector.md (package genql) is modelled as the     *)
(* operations New, Query.exec, Query.execAndPostProcess and Query.Exec on   *)
(* a heap of Go maps, with the goroutines launched by FunExpr and by the    *)
(* wait-group bridges of nested queries as separately scheduled tasks.      *)
(***************************************************************************)
EXTENDS Integers, Sequences, FiniteSets, TLC

\* ---------------------------------------------------------------- bounds
\* longest FROM array of the document
MaxRows == 2
\* deepest nesting of a row inside arrays of the FROM array
MaxDepth == 1
\* tasks (by launch order) whose goroutine may finish before FunExpr returns
MaxEarly == 2

\* ---------------------------------------------------------------- values
\* Go's `any` values that the evaluator handles
Null == [t |-> "null"]
Num(n) == [t |-> "num", n |-> n]
MapRef(m) == [t |-> "map", m |-> m]
Arr(a) == [t |-> "arr", a |-> a]
\* *any: the pointer FunExpr returns for an ASYNC call
Ptr(c) == [t |-> "ptr", c |-> c]
Ommit == [t |-> "omit"]
ColumnName(name) == [t |-> "col", name |-> name]
\* CteEvaluation: the closure BuildCte stores under the CTE name
CteEvaluation(name, stmt, data) == [t |-> "thunk", name |-> name, stmt |-> stmt, data |-> data]

\* ---------------------------------------------------------------- errors
NoErr == [kind |-> "none", qual |-> ""]
EXPECTATION_FAILED == [kind |-> "ExpectationFailed", qual |-> ""]
INVALID_TYPE == [kind |-> "InvalidType", qual |-> ""]
INVALID_FUNCTION == [kind |-> "InvalidFunction", qual |-> ""]
\* the error a registered function returns, tagged with the call's qualifier
FunctionError(qual) == [kind |-> "Function", qual |-> qual]
\* runtime panic recovered by exec(): assignment to entry in nil map
NilMapPanic == [kind |-> "Panic", qual |-> ""]

\* ---------------------------------------------------------------- registry
\* functions: "f" succeeds, "bad" returns an error, "now" is registered
\* with RegisterImmediateFunction
functions == {"f", "bad", "now"}
immediateFunctions == {"now"}
\* a registry that forgets which functions are immediate
NeverImmediate(name) == FALSE
IsImmediateFunction(name) == name \in immediateFunctions

\* what a registered function returns for its argument
FunctionValue(fn, arg) ==
    IF fn = "bad" THEN Null
    ELSE IF arg.t = "num" THEN Num(arg.n + 10) ELSE Num(10)
FunctionErr(fn, qual) == IF fn = "bad" THEN FunctionError(qual) ELSE NoErr

\* ---------------------------------------------------------------- maps
MapGet(m, key) == IF key \in DOMAIN m THEN m[key] ELSE Null
MapPut(m, key, v) == [k \in DOMAIN m \cup {key} |-> IF k = key THEN v ELSE m[k]]
MapDelete(m, key) == [k \in DOMAIN m \ {key} |-> m[k]]
EmptyMap == [k \in {} |-> Null]

\* results of the evaluator's operations: the state, the value, the error
Ok(c, v) == [c |-> c, v |-> v, e |-> NoErr]
Fail(c, e) == [c |-> c, v |-> Null, e |-> e]
IsOk(r) == r.e = NoErr

\* ---------------------------------------------------------------- statements
\* the parsed SQL (sqlparser AST) the evaluator consumes
Star == [k |-> "star"]
Col(name) == [k |-> "col", name |-> name]
\* qual.fn(id) AS as
Fun(qual, fn, as) == [k |-> "fun", qual |-> qual, fn |-> fn, as |-> as]
\* AWAIT(arg) AS as
Await(arg, as) == [k |-> "fun", qual |-> "", fn |-> "await", as |-> as, arg |-> arg]
\* (stmt) AS as
Sub(stmt, as) == [k |-> "sub", stmt |-> stmt, as |-> as]
NoWhere == [k |-> "none"]
\* WHERE qual.fn(id) > than
WhereOver(qual, fn, than) == [k |-> "gt", qual |-> qual, fn |-> fn, than |-> than]
\* WHERE qual.fn(id) > 0
WhereGt(qual, fn) == WhereOver(qual, fn, 0)
Table(name) == [k |-> "table", name |-> name]
Derived(stmt) == [k |-> "derived", stmt |-> stmt]
Select(with, sel, from, where) ==
    [k |-> "select", with |-> with, sel |-> sel, from |-> from, where |-> where,
     having |-> NoWhere]
Union(with, left, right) == [k |-> "union", with |-> with, left |-> left, right |-> right]
Cte(name, stmt) == [name |-> name, stmt |-> stmt]

\* ---------------------------------------------------------------- state
VARIABLES
    stmt,       \* the statement given to New
    opts,       \* Options: whether completed / errors callbacks are set
    pc,         \* where the caller of New / Exec stands
    heap,       \* the Go maps, by identity
    qs,         \* the Query objects, by identity
    tasks,      \* the goroutines launched so far
    cells,      \* the `rs` variables ASYNC goroutines write (targets of *any)
    access,     \* per cell the writes so far; the cells read while being written
    calls,      \* log of invocations of registered functions
    completed,  \* number of invocations of options.completed
    reported,   \* errors passed to options.errors
    cteRuns,    \* number of executions of a CTE subquery
    top,        \* the Query returned by New
    ran,        \* post-processors of top already run by execAndPostProcess
    result,     \* what exec() returned / what Exec returns
    execErr     \* the error New or Exec returned

\* the state of the evaluator's stages and library functions taken alone
VARIABLES
    input,      \* the arguments a stage or function was called with
    output,     \* what it returned
    stage,      \* whether it has been called
    optvars,    \* Options.vars
    vmut,       \* Options.varsMut: the readers and the writer holding it
    gpc         \* the goroutines calling getvar / setvar

aux == <<input, output, stage, optvars, vmut, gpc>>
vars == <<stmt, opts, pc, heap, qs, tasks, cells, access, calls, completed,
                   reported,
          cteRuns, top, ran, result, execErr, aux>>

\* a Query object (type Query struct) and the query it was copied from
NewQueryObject(data, origin) ==
    [data |-> data, from |-> <<>>, dual |-> FALSE, sel |-> <<>>,
     where |-> NoWhere, having |-> NoWhere, wg |-> 0,
     memo |-> EmptyMap, memoNil |-> FALSE, pp |-> <<>>, origin |-> origin]

\* post-processors (the closures appended to query.postProcessors)
\* delete(m, "<-")
PPDelete(m) == [k |-> "delete", m |-> m, name |-> "<-", c |-> 0]
\* data[name] = value behind the pointer
PPFill(m, name, c) == [k |-> "fill", m |-> m, name |-> name, c |-> c]
\* the closure of AWAIT: rs = FuncArgReader(query, current, expr.Exprs)[0]
PPAwait(q, m, arg, c) ==
    [k |-> "await", m |-> m, name |-> "", c |-> c, q |-> q, arg |-> arg]

\* goroutines: kind is the call's qualifier, or "bridge" for
\* go func() { subquery.wg.Wait(); query.wg.Done() }()
Task(kind, q, cell, fn, arg, child) ==
    [kind |-> kind, q |-> q, cell |-> cell, fn |-> fn, arg |-> arg,
     child |-> child, done |-> FALSE]

\* one invocation of a registered function on behalf of query object q
Invoke(c, q, fn, qual) ==
    [c EXCEPT !.calls = Append(@, [fn |-> fn, qual |-> qual, q |-> c.qs[q].origin])]

WgAdd(c, q, d) == [c EXCEPT !.qs[q].wg = @ + d]

\* a goroutine body that keeps the function's error to itself
RunTaskDropsError(c, t) ==
    WgAdd(Invoke([c EXCEPT !.tasks[t].done = TRUE,
                           !.cells = IF c.tasks[t].kind = "async"
                                     THEN [@ EXCEPT ![c.tasks[t].cell] =
                                             FunctionValue(c.tasks[t].fn, c.tasks[t].arg)]
                                     ELSE @,
                           !.access.writes =
                                     IF c.tasks[t].kind = "async"
                                     THEN [@ EXCEPT ![c.tasks[t].cell] = @ + 1]
                                     ELSE @],
                 c.tasks[t].q, c.tasks[t].fn, c.tasks[t].kind),
          c.tasks[t].q, IF c.tasks[t].kind = "spin" THEN 0 ELSE -1)

\* the body of the goroutine t, run to its end
RunTask(c, t) ==
    LET task == c.tasks[t]
        c0 == [c EXCEPT !.tasks[t].done = TRUE]
        c1 == Invoke(c0, task.q, task.fn, task.kind)
        err == FunctionErr(task.fn, task.kind)
        c2 == IF err # NoErr /\ c.opts.errors
              THEN [c1 EXCEPT !.reported = Append(@, err)]
              ELSE c1
    IN  CASE task.kind = "async" ->
               WgAdd([c1 EXCEPT !.cells[task.cell] = FunctionValue(task.fn, task.arg),
                                !.access.writes[task.cell] = @ + 1],
                     task.q, -1)
          [] task.kind = "spin" -> c2
          [] task.kind = "spinasync" -> WgAdd(c2, task.q, -1)
          [] OTHER -> WgAdd(c0, task.q, -1)

\* whether goroutine t can take its step: a bridge blocks in subquery.wg.Wait()
Runnable(c, t) ==
    /\ ~c.tasks[t].done
    /\ c.tasks[t].kind = "bridge" => c.qs[c.tasks[t].child].wg = 0

\* query.wg.Wait() inside a nested execAndPostProcess: the goroutines counted
\* by q's wait group (and, through bridges, by its subqueries') have ended
RECURSIVE Drain(_, _)
Drain(c, q) ==
    LET pending == {t \in 1..Len(c.tasks) : ~c.tasks[t].done /\ c.tasks[t].q = q
                                            /\ c.tasks[t].kind # "spin"}
    IN  IF pending = {} THEN c
        ELSE LET t == CHOOSE x \in pending : \A y \in pending : x <= y
                 c1 == IF c.tasks[t].kind = "bridge"
                       THEN Drain(c, c.tasks[t].child) ELSE c
             IN  Drain(RunTask(c1, t), q)

\* FuncArgReader for the argument list (id): Expr gives ColumnName("id"),
\* ValueOf reads it from the current row, a missing key is nil
FuncArgReader(c, current) ==
    IF current = 0 THEN Null ELSE MapGet(c.heap[current], "id")

\* sequencing of the evaluator's operations: `if err != nil { return err }`
Then(r, K(_, _)) == IF IsOk(r) THEN K(r.c, r.v) ELSE Fail(r.c, r.e)

\* go func() {...}() of FunExpr: the goroutine is launched; when it is among
\* c.early it has run to its end before the launching code continues
Launch(c, task) ==
    IF Len(c.tasks) + 1 \in c.early
    THEN RunTask([c EXCEPT !.tasks = Append(@, task)], Len(c.tasks) + 1)
    ELSE [c EXCEPT !.tasks = Append(@, task)]

\* return &rs, err of the ASYNC case: err is read while goroutine t may be
\* writing it
AsyncReturn(c, t, cell, name) ==
    [c |-> c, v |-> Ptr(cell),
     e |-> IF c.tasks[t].done THEN FunctionErr(name, "async") ELSE NoErr]

\* the ONCE case after a miss in query.singletonExecutions: the function is
\* called, its result stored (a nil map panics) and returned
OnceCall(c, q, name, arg) ==
    IF FunctionErr(name, "once") # NoErr THEN Fail(c, FunctionErr(name, "once"))
    ELSE IF c.qs[q].memoNil THEN Fail(c, NilMapPanic)
    ELSE Ok([c EXCEPT !.qs[q].memo = MapPut(@, "once." \o name, FunctionValue(name, arg))],
            FunctionValue(name, arg))

AppendPP(c, q, pps) == [c EXCEPT !.qs[q].pp = @ \o pps]

\* FunExpr: the call qual.fn(id) evaluated for the row `current` of query q;
\* AWAIT(arg) queues the post-processor that evaluates arg and returns &rs
FunExpr(c, q, current, expr) ==
    LET name == expr.fn
        execType == expr.qual
        isimmediate == IsImmediateFunction(name)
        arg == FuncArgReader(c, current)
    IN  IF name = "await"
        THEN Ok(AppendPP([c EXCEPT !.cells = Append(@, Null),
                                   !.access.writes = Append(@, 0)],
                         q, <<PPAwait(q, current, expr.arg, Len(c.cells) + 1)>>),
                Ptr(Len(c.cells) + 1))
        ELSE IF name \notin functions THEN Fail(c, INVALID_FUNCTION)
        ELSE CASE execType = "async" ->
                    IF isimmediate THEN Fail(c, EXPECTATION_FAILED)
                    ELSE AsyncReturn(
                           Launch(WgAdd([c EXCEPT !.cells = Append(@, Null),
                                                   !.access.writes = Append(@, 0)], q, 1),
                                  Task("async", q, Len(c.cells) + 1, name, arg, 0)),
                           Len(c.tasks) + 1, Len(c.cells) + 1, name)
               [] execType = "spin" ->
                    IF isimmediate THEN Fail(c, EXPECTATION_FAILED)
                    ELSE Ok(Launch(c, Task("spin", q, 0, name, arg, 0)), Ommit)
               [] execType = "spinasync" ->
                    IF isimmediate THEN Fail(c, EXPECTATION_FAILED)
                    ELSE Ok(Launch(WgAdd(c, q, 1),
                                   Task("spinasync", q, 0, name, arg, 0)), Ommit)
               [] execType = "once" ->
                    IF ~c.qs[q].memoNil /\ ("once." \o name) \in DOMAIN c.qs[q].memo
                    THEN Ok(c, c.qs[q].memo["once." \o name])
                    ELSE OnceCall(Invoke(c, q, name, "once"), q, name, arg)
               [] OTHER ->
                    [c |-> Invoke(c, q, name, execType), v |-> FunctionValue(name, arg),
                     e |-> FunctionErr(name, execType)]

\* SelectExpr, data[name] = valueRaw: a pointer (the result of an ASYNC
\* call) also queues the post-processor that stores the value behind it
StoreColumn(c, q, data, name, valueRaw) ==
    IF valueRaw = Ommit THEN Ok(c, Null)
    ELSE Ok([(IF valueRaw.t = "ptr"
              THEN AppendPP(c, q, <<PPFill(data, name, valueRaw.c)>>)
              ELSE c) EXCEPT !.heap[data] = MapPut(@, name, valueRaw)], Null)

\* SelectExpr, the StarExpr case: every key of the row is copied, each with a
\* post-processor deleting "<-" from the projected row
StoreStar(c, q, data, row) ==
    Ok([AppendPP(c, q, [i \in 1..Cardinality(DOMAIN row) |-> PPDelete(data)])
          EXCEPT !.heap[data] = [k \in DOMAIN @ \cup DOMAIN row |->
                                   IF k \in DOMAIN row THEN row[k] ELSE @[k]]], Null)

RECURSIVE exec(_, _), ExecFrom(_, _, _, _), Prepare(_, _, _)

\* BuilFromAliasedTable (DerivedTable) and SubqueryExpr after subquery.exec(): the
\* subquery's post-processors are appended to the query's, and a goroutine
\* holds the query's wait group until the subquery's is done
ImportSubquery(c, q, subquery) ==
    [WgAdd(AppendPP(c, q, c.qs[subquery].pp), q, 1) EXCEPT
        !.tasks = Append(@, Task("bridge", q, 0, "", Null, subquery))]

\* SubqueryExpr: "<-" is installed in the current row, with a post-processor
\* that deletes it; the subquery is prepared over the current row and run
SubqueryExpr(c, q, current, expr) ==
    Then(Prepare(AppendPP([c EXCEPT !.heap[current] =
                                      MapPut(@, "<-", MapRef(c.qs[q].data))],
                          q, <<PPDelete(current)>>),
                 current, expr.stmt),
         LAMBDA c1, subQuery :
            Then(exec(c1, subQuery),
                 LAMBDA c2, rs : Ok(ImportSubquery(c2, q, subQuery), rs)))

\* SelectExpr, one select item: `data` is the row being projected
SelectItem(c, q, current, data, expr) ==
    CASE expr.k = "star" -> StoreStar(c, q, data, c.heap[current])
      [] expr.k = "col" ->
           StoreColumn(c, q, data, expr.name,
                       IF current = 0 THEN Null ELSE MapGet(c.heap[current], expr.name))
      [] expr.k = "sub" ->
           Then(SubqueryExpr(c, q, current, expr),
                LAMBDA c1, value : StoreColumn(c1, q, data, expr.as, value))
      [] OTHER ->
           Then(FunExpr(c, q, current, expr),
                LAMBDA c1, value : StoreColumn(c1, q, data, expr.as, value))

RECURSIVE SelectItems(_, _, _, _, _, _)
SelectItems(c, q, current, data, sel, i) ==
    IF i > Len(sel) THEN Ok(c, MapRef(data))
    ELSE Then(SelectItem(c, q, current, data, sel[i]),
              LAMBDA c1, v : SelectItems(c1, q, current, data, sel, i + 1))

\* SelectExpr: data := make(Map), then every select item in order
SelectExpr(c, q, current) ==
    SelectItems([c EXCEPT !.heap = Append(@, EmptyMap)], q, current,
                Len(c.heap) + 1, c.qs[q].sel, 1)

\* ExecSelect: project every row; an array among the rows is projected
\* recursively and stays an array
RECURSIVE ExecSelect(_, _, _, _, _)
ExecSelect(c, q, current, i, copy) ==
    IF i > Len(current) THEN Ok(c, Arr(copy))
    ELSE Then(CASE current[i].t = "arr" -> ExecSelect(c, q, current[i].a, 1, <<>>)
                [] current[i].t = "map" -> SelectExpr(c, q, current[i].m)
                [] OTHER -> Fail(c, INVALID_TYPE),
              LAMBDA c1, rs : ExecSelect(c1, q, current, i + 1, Append(copy, rs)))

\* ExecWhere: no WHERE keeps the row; the predicate fn(id) > than is a
\* ComparisonExpr, which installs "<-" in the row and removes it again on
\* return (defer delete)
ExecWhere(c, q, current) ==
    IF c.qs[q].where.k = "none" THEN Ok(c, TRUE)
    ELSE Then(FunExpr(c, q, current, Fun(c.qs[q].where.qual, c.qs[q].where.fn, "")),
              LAMBDA c1, value : Ok(c1, value.t = "num" /\ value.n > c.qs[q].where.than))

\* CopyQuery: the literal leaves wg, singletonExecutions, dual and distinct
\* at their zero values and takes whereDefinition from havingDefinition
CopyQuery(c, q) ==
    [c EXCEPT !.qs = Append(@,
        [data |-> c.qs[q].data, from |-> c.qs[q].from, dual |-> FALSE,
         sel |-> c.qs[q].sel, where |-> c.qs[q].having, having |-> c.qs[q].having,
         wg |-> 0, memo |-> EmptyMap, memoNil |-> TRUE, pp |-> c.qs[q].pp,
         origin |-> c.qs[q].origin])]

\* options.completed()
Completed(c) == IF c.opts.completed THEN [c EXCEPT !.completed = @ + 1] ELSE c

\* the back-fill's loop `for { x, ok := value.(*any); ...; value = *x }`: the
\* cells it reads, and the value it ends with
RECURSIVE Chain(_, _), Deref(_, _)
Chain(c, cell) ==
    IF c.cells[cell].t = "ptr" THEN {cell} \cup Chain(c, c.cells[cell].c) ELSE {cell}
Deref(c, cell) ==
    IF c.cells[cell].t = "ptr" THEN Deref(c, c.cells[cell].c) ELSE c.cells[cell]
\* those of the cells whose goroutine has not ended
Unready(c, read) ==
    {cell \in read : \E t \in 1..Len(c.tasks) :
                        c.tasks[t].cell = cell /\ ~c.tasks[t].done}

\* the closure of AWAIT after FuncArgReader: rs = slice[0] (the calls the
\* model awaits return no error)
AwaitStore(r, cell) == IF IsOk(r) THEN [r.c EXCEPT !.cells[cell] = r.v] ELSE r.c

\* one post-processor, run
RunPostProcessor(c, pp) ==
    CASE pp.k = "delete" -> [c EXCEPT !.heap[pp.m] = MapDelete(@, pp.name)]
      [] pp.k = "await" -> AwaitStore(FunExpr(c, pp.q, pp.m, pp.arg), pp.c)
      [] OTHER -> [c EXCEPT !.heap[pp.m] = MapPut(@, pp.name, Deref(c, pp.c)),
                            !.access.unready = @ \cup Unready(c, Chain(c, pp.c))]

RECURSIVE RunPostProcessors(_, _, _)
RunPostProcessors(c, pps, i) ==
    IF i > Len(pps) THEN c
    ELSE RunPostProcessors(RunPostProcessor(c, pps[i]), pps, i + 1)

\* AsArray: an array is itself, a Map becomes a one-element array
AsArray(c, data) ==
    CASE data.t = "arr" -> Ok(c, data.a)
      [] data.t = "map" -> Ok(c, <<data>>)
      [] OTHER -> Fail(c, INVALID_TYPE)

SetFrom(c, q, from) == [c EXCEPT !.qs[q].from = from]

\* Query.exec, the loop over query.from: an array element is evaluated by a
\* copy of the query and its result kept, a Map element is kept when WHERE
\* holds, anything else is skipped
ExecFrom(c, q, i, slice) ==
    IF i > Len(c.qs[q].from) THEN Ok(c, slice)
    ELSE Then(CASE c.qs[q].from[i].t = "arr" ->
                     Then(exec(SetFrom(CopyQuery(c, q), Len(c.qs) + 1, c.qs[q].from[i].a),
                               Len(c.qs) + 1),
                          LAMBDA c1, rs : Ok(c1, Append(slice, rs)))
                [] c.qs[q].from[i].t = "map" ->
                     Then(ExecWhere(c, q, c.qs[q].from[i].m),
                          LAMBDA c1, isMatch :
                             Ok(c1, IF isMatch THEN Append(slice, c.qs[q].from[i])
                                    ELSE slice))
                [] OTHER -> Ok(c, slice),
              LAMBDA c1, kept : ExecFrom(c1, q, i + 1, kept))

\* Query.exec (no GROUP BY, DISTINCT, ORDER BY, LIMIT in the statement):
\* dual mode projects query.from and returns the first row without calling
\* options.completed; otherwise the rows kept by the loop are projected and
\* options.completed is called
exec(c, q) ==
    Then(IF c.qs[q].dual THEN Ok(c, c.qs[q].from) ELSE ExecFrom(c, q, 1, <<>>),
         LAMBDA c1, slice :
            Then(ExecSelect(c1, q, slice, 1, <<>>),
                 LAMBDA c2, rs :
                    IF c.qs[q].dual
                    THEN Ok(c2, IF Len(rs.a) = 0 THEN Null ELSE rs.a[1])
                    ELSE Ok(Completed(c2), rs)))

\* the loop over query.postProcessors, after query.wg.Wait()
PostProcessAll(c, q) == RunPostProcessors(c, c.qs[q].pp, 1)

\* Query.execAndPostProcess, as called by BuildUnion and by a CTE closure
execAndPostProcess(c, q) ==
    Then(exec(c, q), LAMBDA c1, rs : Ok(PostProcessAll(Drain(c1, q), q), rs))

\* the closure BuildCte binds: prepare and run the CTE's subquery, store the
\* result under the CTE's name in the data map of the query just run
Force(c, thunk) ==
    Then(Prepare([c EXCEPT !.cteRuns = @ + 1], thunk.data, thunk.stmt),
         LAMBDA c1, query :
            Then(execAndPostProcess(c1, query),
                 LAMBDA c2, rs :
                    Ok([c2 EXCEPT !.heap[c2.qs[query].data] =
                                     MapPut(@, thunk.name, rs)], rs)))

\* BuildCte: every CTE name is bound, in query.data, to its closure
RECURSIVE BuildCte(_, _, _, _)
BuildCte(c, q, with, i) ==
    IF i > Len(with) THEN c
    ELSE BuildCte([c EXCEPT !.heap[c.qs[q].data] =
                      MapPut(@, with[i].name,
                             CteEvaluation(with[i].name, with[i].stmt, c.qs[q].data))],
                  q, with, i + 1)

\* query.from = AsArray(data)
FromArray(c, q, data) ==
    Then(AsArray(c, data), LAMBDA c1, array : Ok(SetFrom(c1, q, array), Null))

\* BuildFrom / BuilFromAliasedTable (no alias)
BuildFrom(c, q, from) ==
    IF from.k = "table"
    THEN LET data == MapGet(c.heap[c.qs[q].data], from.name)
         IN  CASE data.t = "thunk" ->
                    Then(Force(c, data), LAMBDA c1, rs : FromArray(c1, q, rs))
               [] data.t = "null" ->
                    IF from.name = "dual"
                    THEN Ok([c EXCEPT !.qs[q].dual = TRUE,
                                      !.qs[q].from = <<MapRef(c.qs[q].data)>>], Null)
                    ELSE Ok(c, Null)
               [] OTHER -> FromArray(c, q, data)
    ELSE Then(Prepare(c, c.qs[q].data, from.stmt),
              LAMBDA c1, subquery :
                 Then(exec(c1, subquery),
                      LAMBDA c2, data :
                         FromArray(ImportSubquery(c2, q, subquery), q, data)))

\* BuildSelect
BuildSelect(c, q, s) ==
    Then(BuildFrom(BuildCte(c, q, s.with, 1), q, s.from),
         LAMBDA c1, v :
            Ok([c1 EXCEPT !.qs[q].sel = s.sel, !.qs[q].where = s.where,
                          !.qs[q].having = s.having], Null))

\* BuildUnion, one side: the side gets the WITH of the union, is prepared
\* and run to its end; the value is its result as an array, after `slice`
RECURSIVE UnionSides(_, _, _, _, _, _)
UnionSides(c, data, with, sides, i, slice) ==
    IF i > Len(sides) THEN Ok(c, slice)
    ELSE Then(Prepare(c, data, [sides[i] EXCEPT !.with = with]),
              LAMBDA c1, side :
                 Then(execAndPostProcess(c1, side),
                      LAMBDA c2, sideData :
                         Then(AsArray(c2, sideData),
                              LAMBDA c3, array :
                                 UnionSides(c3, data, with, sides, i + 1,
                                            slice \o array))))

\* BuildUnion: left, then right; the union selects * from both results
BuildUnion(c, q, s) ==
    Then(UnionSides(c, c.qs[q].data, s.with, <<s.left, s.right>>, 1, <<>>),
         LAMBDA c1, slice :
            Ok([c1 EXCEPT !.qs[q].from = slice, !.qs[q].sel = <<Star>>], Null))

\* Build
Build(c, q, s) ==
    IF s.k = "select" THEN BuildSelect(c, q, s) ELSE BuildUnion(c, q, s)

\* New / Prepare: a fresh Query over `data`, built from the statement; the
\* value is the new Query
Prepare(c, data, s) ==
    Then(Build([c EXCEPT !.qs = Append(@, NewQueryObject(data, Len(c.qs) + 1))],
               Len(c.qs) + 1, s),
         LAMBDA c1, v : Ok(c1, Len(c.qs) + 1))

\* ---------------------------------------------------------------- inputs
Quals == {"", "async", "spin", "spinasync", "once"}
\* the select items under test: a qualified call, the plain column id, the
\* subquery (SELECT id FROM dual), or AWAIT(ASYNC.f(id))
Calls ==
    {Fun(qual, fn, "n") : qual \in Quals, fn \in functions}
    \cup {Col("id"), Sub(Select(<<>>, <<Col("id")>>, Table("dual"), NoWhere), "n"),
          Await(Fun("async", "f", "n"), "n")}

\* SELECT <call> FROM t [WHERE ONCE.f(id) > 0]
Plain(call, where) == Select(<<>>, <<call>>, Table("t"), where)
\* SELECT id FROM t WHERE f(id) > 11: true of every row but {id: 1}
Filtered == Plain(Col("id"), WhereOver("", "f", 11))
Statements ==
    {Plain(call, where) : call \in Calls, where \in {NoWhere, WhereGt("once", "f")}}
    \cup {Filtered}
    \cup {Select(<<>>, <<call>>, Table("dual"), NoWhere) : call \in Calls}
    \cup {Select(<<>>, <<Star>>, Derived(Plain(call, NoWhere)), NoWhere) : call \in Calls}
    \cup {Select(<<>>, <<Col("n")>>, Derived(Plain(call, NoWhere)), NoWhere) : call \in Calls}
    \cup {Select(<<Cte("m", Plain(call, NoWhere))>>, <<Star>>, Table("m"), NoWhere) :
            call \in Calls}
    \cup {Union(<<Cte("m", Plain(call, NoWhere))>>,
                Select(<<>>, <<Star>>, Table("m"), NoWhere),
                Select(<<>>, <<Star>>, Table("m"), NoWhere)) : call \in Calls}

\* the document {t: [...]}: row k is the Map {id: k}, wrapped in depth[k] arrays
RECURSIVE Nest(_, _)
Nest(v, d) == IF d = 0 THEN v ELSE Arr(<<Nest(v, d - 1)>>)
Depths == UNION {[1..n -> 0..MaxDepth] : n \in 0..MaxRows}
Document(depth) ==
    <<[k \in {"t"} |-> Arr([i \in 1..Len(depth) |-> Nest(MapRef(i + 1), depth[i])])]>>
    \o [i \in 1..Len(depth) |-> [k \in {"id"} |-> Num(i)]]

\* ---------------------------------------------------------------- actions
Ctx(early) ==
    [heap |-> heap, qs |-> qs, tasks |-> tasks, cells |-> cells, access |-> access,
     calls |-> calls,
     completed |-> completed, reported |-> reported, cteRuns |-> cteRuns,
     opts |-> opts, early |-> early]

Store(c) ==
    /\ heap' = c.heap
    /\ qs' = c.qs
    /\ tasks' = c.tasks
    /\ cells' = c.cells
    /\ access' = c.access
    /\ calls' = c.calls
    /\ completed' = c.completed
    /\ reported' = c.reported
    /\ cteRuns' = c.cteRuns

\* no stage is being run alone, nobody calls getvar / setvar
AuxIdle ==
    /\ input = Null
    /\ output = Null
    /\ stage = "off"
    /\ optvars = EmptyMap
    /\ vmut = [readers |-> 0, writer |-> FALSE]
    /\ gpc = <<>>

Init ==
    /\ AuxIdle
    /\ stmt \in Statements
    /\ opts \in [completed : BOOLEAN, errors : BOOLEAN]
    /\ \E depth \in Depths : heap = Document(depth)
    /\ pc = "init"
    /\ qs = <<>>
    /\ tasks = <<>>
    /\ cells = <<>>
    /\ access = [writes |-> <<>>, unready |-> {}]
    /\ calls = <<>>
    /\ completed = 0
    /\ reported = <<>>
    /\ cteRuns = 0
    /\ top = 0
    /\ ran = 0
    /\ result = Null
    /\ execErr = NoErr

\* New(data, query, options...): the document is heap[1]
New ==
    /\ pc = "init"
    /\ \E early \in SUBSET (1..MaxEarly) :
         LET r == Prepare(Ctx(early), 1, stmt)
         IN  /\ Store(r.c)
             /\ IF IsOk(r)
                THEN pc' = "built" /\ top' = r.v /\ execErr' = NoErr
                ELSE pc' = "failed" /\ top' = 0 /\ execErr' = r.e
    /\ UNCHANGED aux
    /\ UNCHANGED <<stmt, opts, ran, result>>

\* Exec -> execAndPostProcess: rs, err := query.exec()
ExecBody ==
    /\ pc = "built"
    /\ \E early \in SUBSET (1..MaxEarly) :
         LET r == exec(Ctx(early), top)
         IN  /\ Store(r.c)
             /\ IF IsOk(r)
                THEN pc' = "wait" /\ result' = r.v /\ execErr' = NoErr
                ELSE pc' = "failed" /\ result' = Null /\ execErr' = r.e
    /\ UNCHANGED aux
    /\ UNCHANGED <<stmt, opts, top, ran>>

\* an execAndPostProcess that goes on to the post-processors without waiting
WaitWithoutDrain ==
    /\ pc = "wait"
    /\ pc' = "post"
    /\ UNCHANGED aux
    /\ UNCHANGED <<stmt, opts, heap, qs, tasks, cells, access, calls, completed,
                   reported,
                   cteRuns, top, ran, result, execErr>>

\* execAndPostProcess: query.wg.Wait() returns
Wait ==
    /\ pc = "wait"
    /\ qs[top].wg = 0
    /\ pc' = "post"
    /\ UNCHANGED aux
    /\ UNCHANGED <<stmt, opts, heap, qs, tasks, cells, access, calls, completed,
                   reported,
                   cteRuns, top, ran, result, execErr>>

\* execAndPostProcess: the next post-processor of the loop
PostProcess ==
    /\ pc = "post"
    /\ ran < Len(qs[top].pp)
    /\ Store(RunPostProcessor(Ctx({}), qs[top].pp[ran + 1]))
    /\ ran' = ran + 1
    /\ UNCHANGED aux
    /\ UNCHANGED <<stmt, opts, pc, top, result, execErr>>

\* execAndPostProcess returns rs; Exec returns it, wrapped unless an array
Return ==
    /\ pc = "post"
    /\ ran = Len(qs[top].pp)
    /\ pc' = "done"
    /\ result' = IF result.t = "arr" THEN result ELSE Arr(<<result>>)
    /\ UNCHANGED aux
    /\ UNCHANGED <<stmt, opts, heap, qs, tasks, cells, access, calls, completed,
                   reported,
                   cteRuns, top, ran, execErr>>

\* a goroutine runs to its end
TaskRun ==
    /\ \E t \in 1..Len(tasks) :
         /\ Runnable(Ctx({}), t)
         /\ Store(RunTask(Ctx({}), t))
    /\ UNCHANGED aux
    /\ UNCHANGED <<stmt, opts, pc, top, ran, result, execErr>>

Next == New \/ ExecBody \/ Wait \/ PostProcess \/ Return \/ TaskRun

Spec == Init /\ [][Next]_vars

\* ---------------------------------------------------------------- getvar / setvar
\* the evaluator's own state while a stage or a function is run alone
main == <<stmt, opts, pc, heap, qs, tasks, cells, access, calls, completed,
                   reported,
          cteRuns, top, ran, result, execErr>>
MainIdle ==
    /\ stmt = Null
    /\ opts = [completed |-> FALSE, errors |-> FALSE]
    /\ pc = "off"
    /\ heap = <<>>
    /\ qs = <<>>
    /\ tasks = <<>>
    /\ cells = <<>>
    /\ access = [writes |-> <<>>, unready |-> {}]
    /\ calls = <<>>
    /\ completed = 0
    /\ reported = <<>>
    /\ cteRuns = 0
    /\ top = 0
    /\ ran = 0
    /\ result = Null
    /\ execErr = NoErr

\* goroutines (queries and background tasks sharing one Options) that call
\* getvar("k") and setvar("k", v)
MaxCallers == 3
MaxValue == 2
Callers == 1..MaxCallers
\* a caller: where it stands, the value it is setting, what its last call returned
Caller(at, value, got) == [at |-> at, value |-> value, got |-> got]

\* WithVars(vars): the map the options start with
InitVars ==
    /\ optvars \in {EmptyMap} \cup {[k \in {"k"} |-> Num(v)] : v \in 1..MaxValue}
    /\ vmut = [readers |-> 0, writer |-> FALSE]
    /\ gpc = [g \in Callers |-> Caller("idle", Null, Null)]
    /\ input = Null
    /\ output = Null
    /\ stage = "vars"
    /\ MainIdle

\* GetVarFunc: query.options.varsMut.RLock()
GetVarRLock(g) ==
    /\ gpc[g].at = "idle"
    /\ ~vmut.writer
    /\ vmut' = [vmut EXCEPT !.readers = @ + 1]
    /\ gpc' = [gpc EXCEPT ![g].at = "rlocked"]
    /\ UNCHANGED <<optvars, input, output, stage, main>>

\* GetVarFunc: value, ok := query.options.vars[key]; return; the deferred
\* RUnlock
GetVarReturn(g) ==
    /\ gpc[g].at = "rlocked"
    /\ gpc' = [gpc EXCEPT ![g] = Caller("idle", Null, MapGet(optvars, "k"))]
    /\ vmut' = [vmut EXCEPT !.readers = @ - 1]
    /\ UNCHANGED <<optvars, input, output, stage, main>>

\* a setvar that does not take the lock
SetVarUnlocked(g, value) ==
    /\ gpc[g].at = "idle"
    /\ vmut' = [vmut EXCEPT !.writer = TRUE]
    /\ gpc' = [gpc EXCEPT ![g] = Caller("locked", value, @.got)]
    /\ UNCHANGED <<optvars, input, output, stage, main>>

\* SetVarFunc: query.options.varsMut.Lock()
SetVarLock(g, value) ==
    /\ gpc[g].at = "idle"
    /\ vmut.readers = 0
    /\ ~vmut.writer
    /\ vmut' = [vmut EXCEPT !.writer = TRUE]
    /\ gpc' = [gpc EXCEPT ![g] = Caller("locked", value, @.got)]
    /\ UNCHANGED <<optvars, input, output, stage, main>>

\* SetVarFunc: query.options.vars[key] = value; return Ommit(true); the
\* deferred Unlock
SetVarReturn(g) ==
    /\ gpc[g].at = "locked"
    /\ optvars' = MapPut(optvars, "k", gpc[g].value)
    /\ gpc' = [gpc EXCEPT ![g] = Caller("idle", Null, Ommit)]
    /\ vmut' = [vmut EXCEPT !.writer = FALSE]
    /\ UNCHANGED <<input, output, stage, main>>

NextVars ==
    \E g \in Callers :
       \/ GetVarRLock(g)
       \/ GetVarReturn(g)
       \/ \E v \in 1..MaxValue : SetVarLock(g, Num(v))
       \/ SetVarReturn(g)

SpecVars == InitVars /\ [][NextVars]_vars

\* ---------------------------------------------------------------- GROUP BY
\* rows given to ExecGroupBy: Maps with the columns k, j and a distinct id
MaxGroupRows == 3
KeyValues == {Null} \cup {Num(v) : v \in 1..MaxValue}
GroupInput(n) ==
    {[i \in 1..n |-> [key \in {"k", "j", "id"} |->
                        IF key = "id" THEN Num(i) ELSE kv[i][key]]] :
       kv \in [1..n -> [{"k", "j"} -> KeyValues]]}
\* query.groupDefinition: the GROUP BY columns
GroupDefinitions == {{}, {"k"}, {"k", "j"}}
\* the orders in which `range` may visit the n entries of a Go map
Range(n) == {p \in [1..n -> 1..n] : \A a, b \in 1..n : p[a] = p[b] => a = b}

\* ExecGroupBy: innerMap, the group key of a row (ExecReader of each column)
InnerMap(item, groupDefinition) == [key \in groupDefinition |-> MapGet(item, key)]

\* ExecGroupBy: the row joins the group whose key matches, else a new group
\* is made for it; grouped is kept in the order the groups were made
AddToGroup(grouped, item, innerMap) ==
    IF \E g \in 1..Len(grouped) : grouped[g].key = innerMap
    THEN [g \in 1..Len(grouped) |->
            IF grouped[g].key = innerMap
            THEN [grouped[g] EXCEPT !.items = Append(@, item)]
            ELSE grouped[g]]
    ELSE Append(grouped, [key |-> innerMap, items |-> <<item>>])

\* an ExecGroupBy that never finds the group of a row
GroupedApart(current, groupDefinition, i, grouped) ==
    [n \in 1..Len(current) |->
       [key |-> InnerMap(current[n], groupDefinition), items |-> <<current[n]>>]]

\* ExecGroupBy: the first loop, over the rows
RECURSIVE Grouped(_, _, _, _)
Grouped(current, groupDefinition, i, grouped) ==
    IF i > Len(current) THEN grouped
    ELSE Grouped(current, groupDefinition, i + 1,
                 AddToGroup(grouped, current[i],
                            InnerMap(current[i], groupDefinition)))

\* ExecGroupBy: the row made of a group, its key columns and "*"
GroupRow(group) ==
    [key \in DOMAIN group.key \cup {"*"} |->
       IF key = "*" THEN Arr(group.items) ELSE group.key[key]]

\* ExecGroupBy: the second loop ranges over the map `grouped` in the order
\* `order` (no HAVING: every group row is kept)
GroupRows(grouped, order) ==
    [n \in 1..Len(grouped) |-> GroupRow(grouped[order[n]])]

ExecGroupBy(current, groupDefinition, order) ==
    IF groupDefinition = {} THEN current
    ELSE GroupRows(Grouped(current, groupDefinition, 1, <<>>), order)

NumGroups(current, groupDefinition) ==
    IF groupDefinition = {} THEN 0
    ELSE Len(Grouped(current, groupDefinition, 1, <<>>))

InitGroup ==
    /\ \E n \in 0..MaxGroupRows : \E rows \in GroupInput(n) :
          \E gd \in GroupDefinitions :
             input = [current |-> rows, groupDefinition |-> gd]
    /\ output = <<>>
    /\ stage = "group"
    /\ optvars = EmptyMap
    /\ vmut = [readers |-> 0, writer |-> FALSE]
    /\ gpc = <<>>
    /\ MainIdle

\* one execution of the query's GROUP BY stage; the query is run twice
RunGroupBy ==
    /\ stage = "group"
    /\ Len(output) < 2
    /\ \E order \in Range(NumGroups(input.current, input.groupDefinition)) :
          output' = Append(output,
                           ExecGroupBy(input.current, input.groupDefinition, order))
    /\ UNCHANGED <<input, stage, optvars, vmut, gpc, main>>

NextGroup == RunGroupBy
SpecGroup == InitGroup /\ [][NextGroup]_vars

\* ---------------------------------------------------------------- LIMIT / OFFSET
\* the projected, de-duplicated and ordered rows exec() has before LIMIT
MaxLimitRows == 3
\* largest LIMIT and OFFSET of the statement
MaxLimit == 4
\* most unused elements behind the rows in the backing array append() left
MaxSpare == 2
\* offsetDefinition / limitDefinition when the statement has none
NoLimit == -1
SliceBoundsPanic == [kind |-> "Panic", qual |-> "slice bounds out of range"]

\* rs[offset:][:limit] on a slice of capacity cap: the second slice
\* expression may reach behind the length, up to the capacity, where the
\* backing array holds nil; behind the capacity it panics
Reslice(rs, cap, offset, limit) ==
    IF limit > cap - offset
    THEN [rows |-> <<>>, err |-> SliceBoundsPanic]
    ELSE [rows |-> [i \in 1..limit |->
                      IF offset + i <= Len(rs) THEN rs[offset + i] ELSE Null],
          err |-> NoErr]

\* exec(): from `limit := len(rs)` to FINALIZE, with offset and limit as set
\* from offsetDefinition and limitDefinition
LimitRows(rs, cap, offset, limit) ==
    IF offset >= Len(rs) THEN [rows |-> <<>>, err |-> NoErr]
    ELSE Reslice(rs, cap, offset, IF limit >= Len(rs) THEN Len(rs) ELSE limit)

\* exec(): the LIMIT / OFFSET stage
ExecLimit(rs, cap, offsetDefinition, limitDefinition) ==
    LimitRows(rs, cap,
              IF offsetDefinition # NoLimit THEN offsetDefinition ELSE 0,
              IF limitDefinition # NoLimit THEN limitDefinition ELSE Len(rs))

InitLimit ==
    /\ \E k \in 0..MaxLimitRows, spare \in 0..MaxSpare,
          limit \in {NoLimit} \cup 0..MaxLimit, offset \in {NoLimit} \cup 0..MaxLimit :
          /\ offset # NoLimit => limit # NoLimit
          /\ input = [rs |-> [i \in 1..k |-> Num(i)], cap |-> k + spare,
                      offsetDefinition |-> offset, limitDefinition |-> limit]
    /\ output = Null
    /\ stage = "limit"
    /\ optvars = EmptyMap
    /\ vmut = [readers |-> 0, writer |-> FALSE]
    /\ gpc = <<>>
    /\ MainIdle

RunLimit ==
    /\ stage = "limit"
    /\ output' = ExecLimit(input.rs, input.cap, input.offsetDefinition,
                           input.limitDefinition)
    /\ stage' = "limited"
    /\ UNCHANGED <<input, optvars, vmut, gpc, main>>

NextLimit == RunLimit
SpecLimit == InitLimit /\ [][NextLimit]_vars

\* ---------------------------------------------------------------- compare
\* numbers with their Go type; the value is kept in halves (h = 2 * value),
\* so that 1.5 is a float and every integer has an even h
MaxNumber == 2
Number(ty, h) == [t |-> "num", ty |-> ty, h |-> h]
IntTypes == {"int", "int8"}
FloatTypes == {"float32", "float64"}
Numbers ==
    {Number(ty, 2 * v) : ty \in IntTypes, v \in (0 - MaxNumber)..MaxNumber}
    \cup {Number(ty, h) : ty \in FloatTypes, h \in (0 - 2 * MaxNumber)..(2 * MaxNumber)}

\* Go's conversion of an in-range float to an integer type: the fraction is
\* discarded (truncation towards zero)
Truncate(h) == IF h >= 0 THEN 2 * (h \div 2) ELSE 0 - 2 * ((0 - h) \div 2)

\* compare.As[T](v): T(t)
As(T, v) ==
    IF T \in IntTypes /\ v.ty \in FloatTypes THEN Truncate(v.h) ELSE v.h

\* compare.Cmp[T](a, b): both operands in the type T of a
Cmp(T, a, b) ==
    IF a = As(T, b) THEN 0
    ELSE IF a > As(T, b) THEN 1
    ELSE -1

\* compare.compare[T](a, v) and compare.Compare(a, b) for numeric operands:
\* the type switch on a selects T, the one on v leads to Cmp
Compare(a, b) == Cmp(a.ty, a.h, b)

InitCompare ==
    /\ \E a, b \in Numbers : input = [a |-> a, b |-> b]
    /\ output = Null
    /\ stage = "compare"
    /\ optvars = EmptyMap
    /\ vmut = [readers |-> 0, writer |-> FALSE]
    /\ gpc = <<>>
    /\ MainIdle

RunCompare ==
    /\ stage = "compare"
    /\ output' = Compare(input.a, input.b)
    /\ stage' = "compared"
    /\ UNCHANGED <<input, optvars, vmut, gpc, main>>

NextCompare == RunCompare
SpecCompare == InitCompare /\ [][NextCompare]_vars

\* ---------------------------------------------------------------- ORDER BY
MaxSortRows == 3
MaxSortKey == 2
SortKeys == {Null} \cup {Number("float64", 2 * v) : v \in 1..MaxSortKey}

\* the rows handed to ExecOrderBy; id is the position in the input
SortInput(n) ==
    {[i \in 1..n |-> [id |-> i, k |-> ks[i], j |-> js[i]]] :
        ks \in [1..n -> SortKeys], js \in [1..n -> SortKeys]}

\* OrderByDefinition: (Key, Value) pairs, Value = TRUE for ascending
OrderBys ==
    {<<>>}
    \cup {<<[Key |-> key, Value |-> asc]>> : key \in {"k", "j"}, asc \in BOOLEAN}
    \cup {<<[Key |-> "k", Value |-> a1], [Key |-> "j", Value |-> a2]>> :
             a1 \in BOOLEAN, a2 \in BOOLEAN}
    \cup {<<[Key |-> "j", Value |-> a1], [Key |-> "k", Value |-> a2]>> :
             a1 \in BOOLEAN, a2 \in BOOLEAN}

RECURSIVE SortCompare(_, _, _, _)
\* a comparator that lets a null on the left sort first
SortCompareNullFirst(slice, i, j, orderBy) ==
    IF Len(orderBy) = 0 THEN FALSE
    ELSE IF slice[i][orderBy[1].Key] = Null THEN TRUE
    ELSE IF slice[j][orderBy[1].Key] = Null THEN TRUE
    ELSE IF Compare(slice[i][orderBy[1].Key], slice[j][orderBy[1].Key]) = 0
         THEN SortCompare(slice, i, j, Tail(orderBy))
    ELSE Compare(slice[i][orderBy[1].Key], slice[j][orderBy[1].Key])
            = (IF orderBy[1].Value THEN -1 ELSE 1)
\* genql.Compare(slice, i, j, orderBy): does slice[i] sort before slice[j]
SortCompare(slice, i, j, orderBy) ==
    IF Len(orderBy) = 0 THEN FALSE
    ELSE IF slice[i][orderBy[1].Key] = Null THEN FALSE
    ELSE IF slice[j][orderBy[1].Key] = Null THEN TRUE
    ELSE IF Compare(slice[i][orderBy[1].Key], slice[j][orderBy[1].Key]) = 0
         THEN SortCompare(slice, i, j, Tail(orderBy))
    ELSE Compare(slice[i][orderBy[1].Key], slice[j][orderBy[1].Key])
            = (IF orderBy[1].Value THEN -1 ELSE 1)

\* a sort.Slice that may leave the slice in any order
AnyOrder(slice, orderBy) == TRUE
\* what sort.Slice guarantees of the slice it leaves: no element sorts
\* before one that precedes it; the order of equal elements is not specified
IsSorted(slice, orderBy) ==
    \A i, j \in 1..Len(slice) : i < j => ~SortCompare(slice, j, i, orderBy)

\* the slice after the swaps of sort.Slice, p[i] being the element moved to i
Swapped(slice, p) == [i \in 1..Len(slice) |-> slice[p[i]]]

InitSort ==
    /\ \E n \in 0..MaxSortRows : \E slice \in SortInput(n) : \E orderBy \in OrderBys :
          input = [slice |-> slice, orderBy |-> orderBy]
    /\ output = <<>>
    /\ stage = "sort"
    /\ optvars = EmptyMap
    /\ vmut = [readers |-> 0, writer |-> FALSE]
    /\ gpc = <<>>
    /\ MainIdle

\* ExecOrderBy -> Sort
RunSort ==
    /\ stage = "sort"
    /\ IF Len(input.orderBy) = 0
          THEN output' = input.slice
          ELSE \E p \in Range(Len(input.slice)) :
                  /\ IsSorted(Swapped(input.slice, p), input.orderBy)
                  /\ output' = Swapped(input.slice, p)
    /\ stage' = "sorted"
    /\ UNCHANGED <<input, optvars, vmut, gpc, main>>

NextSort == RunSort
SpecSort == InitSort /\ [][NextSort]_vars

\* ---------------------------------------------------------------- JOIN
MaxJoinRows == 2
MaxJoinKey == 2
JoinKeys == 1..MaxJoinKey
JoinTypes == {"NormalJoinType", "LeftJoinType", "RightJoinType"}

\* the rows of `... FROM x A <join> y B ON a = b`: the left table has the
\* column a, the right table the column b
JoinInput(col, n) == {[i \in 1..n |-> (col :> ks[i])] : ks \in [1..n -> JoinKeys]}

\* Key(expr) for the ON expression a = b
KeyLeft == "a"
KeyRight == "b"
\* Expr(query, current, expr, nil) for the ON expression a = b
OnExpr(current) == current[KeyLeft] = current[KeyRight]

\* Partitionize(rows, keys)[key].Rows: the rows that have the key column with
\* this value, rows without the column are skipped
Partitionize(rows, col, key) ==
    SelectSeq(rows, LAMBDA r : col \in DOMAIN r /\ r[col] = key)

\* maps.Copy(current, l); maps.Copy(current, r): r overwrites l
Merged(l, r) == r @@ l

\* the rows appended for one pair of partitions: the cross product of their
\* rows when the ON expression holds of the partitions' keys
PairRows(ls, rs, lk, rk) ==
    IF OnExpr((KeyLeft :> lk) @@ (KeyRight :> rk))
       THEN [n \in 1..(Len(ls) * Len(rs)) |->
                Merged(ls[((n - 1) \div Len(rs)) + 1], rs[((n - 1) % Len(rs)) + 1])]
       ELSE <<>>

\* StraightJoin: the loops over leftPartition and rightPartition from the
\* n-th pair on, lo and ro being the orders in which the two maps are ranged
RECURSIVE JoinFrom(_, _, _, _)
JoinFrom(all, lo, ro, n) ==
    IF n > MaxJoinKey * MaxJoinKey THEN <<>>
    ELSE PairRows(Partitionize(all, KeyLeft, lo[((n - 1) \div MaxJoinKey) + 1]),
                  Partitionize(all, KeyRight, ro[((n - 1) % MaxJoinKey) + 1]),
                  lo[((n - 1) \div MaxJoinKey) + 1],
                  ro[((n - 1) % MaxJoinKey) + 1])
         \o JoinFrom(all, lo, ro, n + 1)

StraightJoin(left, right, lo, ro) == JoinFrom(left \o right, lo, ro, 1)

\* a left row no right row satisfies the ON expression with
Unmatched(l, right) ==
    \A n \in 1..Len(right) :
       ~(/\ {KeyLeft, KeyRight} \subseteq DOMAIN Merged(l, right[n])
         /\ OnExpr(Merged(l, right[n])))

\* join.RunParallel(): the merged rows, and for a join that is not an inner
\* join the left rows without a match
RunParallel(left, right, joinType, lo, ro) ==
    StraightJoin(left, right, lo, ro)
    \o (IF joinType # "NormalJoinType"
           THEN SelectSeq(left, LAMBDA l : Unmatched(l, right))
           ELSE <<>>)

\* an ExecJoin that swaps the sides of every join
ExecJoinSwapsAll(left, right, joinType, lo, ro) ==
    RunParallel(right, left, joinType, lo, ro)
ExecJoin(left, right, joinType, lo, ro) ==
    IF joinType = "RightJoinType"
       THEN RunParallel(right, left, joinType, lo, ro)
       ELSE RunParallel(left, right, joinType, lo, ro)

InitJoin ==
    /\ \E n, m \in 0..MaxJoinRows :
          \E left \in JoinInput(KeyLeft, n), right \in JoinInput(KeyRight, m) :
             \E joinType \in JoinTypes :
                input = [left |-> left, right |-> right, joinType |-> joinType]
    /\ output = <<>>
    /\ stage = "join"
    /\ optvars = EmptyMap
    /\ vmut = [readers |-> 0, writer |-> FALSE]
    /\ gpc = <<>>
    /\ MainIdle

\* BuildJoin -> ExecJoin
RunJoin ==
    /\ stage = "join"
    /\ \E lo, ro \in Range(MaxJoinKey) :
          output' = ExecJoin(input.left, input.right, input.joinType, lo, ro)
    /\ stage' = "joined"
    /\ UNCHANGED <<input, optvars, vmut, gpc, main>>

NextJoin == RunJoin
SpecJoin == InitJoin /\ [][NextJoin]_vars

\* ---------------------------------------------------------------- Build errors
\* the variables of the other specifications, at rest
AuxStart(st) ==
    /\ output = <<>>
    /\ stage = st
    /\ optvars = EmptyMap
    /\ vmut = [readers |-> 0, writer |-> FALSE]
    /\ gpc = <<>>
    /\ MainIdle

MaxGroupExprs == 2
\* a literal where a column name is expected (GROUP BY 1)
Literal == [k |-> "literal"]
GroupExprs == {Col("k"), Col("j"), Literal}
\* the ON expressions: a = b, a boolean, and a + b, a number
OnExprs == {"a = b", "a + b"}

\* BuildColumnName(expr): the name, or INVALID_TYPE for what is no ColName
BuildColumnName(expr) ==
    IF expr.k = "col" THEN [name |-> expr.name, err |-> NoErr]
    ELSE [name |-> "", err |-> INVALID_TYPE]

RECURSIVE BuildGroup(_, _)
\* BuildGroup: `if err != nil { return nil }`
BuildGroup(groupDefinition, group) ==
    IF Len(group) = 0 THEN [groupDefinition |-> groupDefinition, err |-> NoErr]
    ELSE IF BuildColumnName(Head(group)).err # NoErr
         THEN [groupDefinition |-> groupDefinition, err |-> NoErr]
    ELSE BuildGroup(groupDefinition \cup {BuildColumnName(Head(group)).name},
                    Tail(group))

\* the error of the join: the ON expression is evaluated for a pair of
\* partitions and its value is no boolean
ExecJoinErr(left, right, on) ==
    IF on # "a = b" /\ Len(left) > 0 /\ Len(right) > 0 THEN INVALID_TYPE ELSE NoErr

\* BuildJoin: `rs, err := ExecJoin(...); if err != nil { return nil }`,
\* query.from is left as it was
BuildJoin(from, left, right, on, joinType, lo, ro) ==
    IF ExecJoinErr(left, right, on) # NoErr
       THEN [from |-> from, err |-> NoErr]
       ELSE [from |-> ExecJoin(left, right, joinType, lo, ro), err |-> NoErr]

InitBuild ==
    /\ \E n, m \in 0..MaxJoinRows, g \in 0..MaxGroupExprs :
          \E left \in JoinInput(KeyLeft, n), right \in JoinInput(KeyRight, m) :
             \E on \in OnExprs, group \in [1..g -> GroupExprs] :
                input = [left |-> left, right |-> right, on |-> on,
                         joinType |-> "NormalJoinType", group |-> group]
    /\ AuxStart("build")

\* New -> Prepare -> Build -> BuildSelect: BuildFrom (BuildJoin), BuildGroup
RunBuild ==
    /\ stage = "build"
    /\ \E lo, ro \in Range(MaxJoinKey) :
          output' =
             [from |-> BuildJoin(<<>>, input.left, input.right, input.on,
                                 input.joinType, lo, ro).from,
              groupDefinition |-> BuildGroup({}, input.group).groupDefinition,
              err |-> IF BuildJoin(<<>>, input.left, input.right, input.on,
                                   input.joinType, lo, ro).err # NoErr
                         THEN BuildJoin(<<>>, input.left, input.right, input.on,
                                        input.joinType, lo, ro).err
                         ELSE BuildGroup({}, input.group).err]
    /\ stage' = "built"
    /\ UNCHANGED <<input, optvars, vmut, gpc, main>>

SpecBuild == InitBuild /\ [][RunBuild]_vars

\* ---------------------------------------------------------------- BinaryExpr
MaxOperand == 2
Operands == {Null} \cup {Num(n) : n \in (0 - MaxOperand)..MaxOperand}
Operators == {"PlusOp", "MinusOp", "MultOp", "DivOp", "IntDivOp"}

\* float64 values that are no integers of the model: the quotient l / r of a
\* division with a remainder, and the IEEE 754 results of a division by zero
Quotient(l, r) == [t |-> "num", n |-> <<l, r>>]
Inf(sign) == [t |-> "num", n |-> IF sign > 0 THEN "+Inf" ELSE "-Inf"]
NaN == [t |-> "num", n |-> "NaN"]
\* runtime error: integer divide by zero, recovered by the defer of exec()
DivideByZeroPanic == [kind |-> "Panic", qual |-> "integer divide by zero"]

\* int64(*leftValue) / int64(*rightValue): truncated towards zero
IntDiv(l, r) ==
    IF (l >= 0) = (r > 0) THEN (IF l >= 0 THEN l \div r ELSE (0 - l) \div (0 - r))
    ELSE 0 - ((IF l >= 0 THEN l ELSE 0 - l) \div (IF r > 0 THEN r ELSE 0 - r))

\* *leftValue / *rightValue on float64
FloatDiv(l, r) ==
    IF r = 0 THEN (IF l = 0 THEN NaN ELSE Inf(l))
    ELSE IF IntDiv(l, r) * r = l THEN Num(IntDiv(l, r))
    ELSE Quotient(l, r)

\* BinaryExpr: a null operand gives nil, otherwise the switch on the operator
BinaryExpr(left, right, op) ==
    IF left = Null \/ right = Null THEN [v |-> Null, e |-> NoErr]
    ELSE IF op = "PlusOp" THEN [v |-> Num(left.n + right.n), e |-> NoErr]
    ELSE IF op = "MinusOp" THEN [v |-> Num(left.n - right.n), e |-> NoErr]
    ELSE IF op = "MultOp" THEN [v |-> Num(left.n * right.n), e |-> NoErr]
    ELSE IF op = "DivOp" THEN [v |-> FloatDiv(left.n, right.n), e |-> NoErr]
    ELSE IF right.n = 0 THEN [v |-> Null, e |-> DivideByZeroPanic]
    ELSE [v |-> Num(IntDiv(left.n, right.n)), e |-> NoErr]

InitBinary ==
    /\ \E left, right \in Operands : \E op \in Operators :
          input = [left |-> left, right |-> right, op |-> op]
    /\ AuxStart("binary")

\* Exec of `SELECT left op right AS result FROM test`
RunBinary ==
    /\ stage = "binary"
    /\ output' = BinaryExpr(input.left, input.right, input.op)
    /\ stage' = "evaluated"
    /\ UNCHANGED <<input, optvars, vmut, gpc, main>>

SpecBinary == InitBinary /\ [][RunBinary]_vars

\* ---------------------------------------------------------------- idiomatic arrays
MaxText == 3
\* the characters FindArrayIndex tells apart, x being any other character
Chars == {"[", "]", "'", "\"", "\\", "x"}
Texts == UNION {[1..n -> Chars] : n \in 0..MaxText}
IndexOutOfRange == [kind |-> "index out of range", qual |-> ""]

\* FindArrayIndex: the loop from the character i on (i counts from 1, the
\* indexes stored are those of Go, from 0); hold is the open quote or ""
RECURSIVE FindFrom(_, _, _, _, _)
FindFrom(str, i, hold, stack, out) ==
    IF i > Len(str) THEN [output |-> out, err |-> NoErr]
    ELSE IF str[i] = "\\" THEN
        \* i++, and nothing else: a backslash is no quote and no bracket
        FindFrom(str, i + 2, hold, stack, out)
    ELSE IF str[i] \in {"'", "\""} THEN
        FindFrom(str, i + 1,
                 IF hold = "" THEN str[i] ELSE IF hold = str[i] THEN "" ELSE hold,
                 stack, out)
    ELSE IF hold # "" THEN FindFrom(str, i + 1, hold, stack, out)
    ELSE IF str[i] = "[" THEN
        FindFrom(str, i + 1, hold, Append(stack, Len(out) + 1),
                 Append(out, <<i - 1, 0>>))
    ELSE IF str[i] = "]" THEN
        IF Len(stack) = 0 THEN [output |-> <<>>, err |-> IndexOutOfRange]
        ELSE FindFrom(str, i + 1, hold, Tail(stack),
                      [out EXCEPT ![Head(stack)][2] = i - 1])
    ELSE FindFrom(str, i + 1, hold, stack, out)

FindArrayIndex(str) == FindFrom(str, 1, "", <<>>, <<>>)

\* input[lo:hi] of Go, or the slice bounds panic
Slice(str, lo, hi) ==
    IF lo <= hi /\ hi <= Len(str)
       THEN [s |-> SubSeq(str, lo + 1, hi), panic |-> FALSE]
       ELSE [s |-> <<>>, panic |-> TRUE]

\* FixIdiomaticArray: the loop over indexes from the n-th one on
RECURSIVE FixFrom(_, _, _)
FixFrom(str, indexes, n) ==
    IF n > Len(indexes) THEN [s |-> str, outcome |-> "ok"]
    ELSE IF \/ Slice(str, 0, indexes[n][1] + 5 * (n - 1)).panic
            \/ Slice(str, indexes[n][1] + 5 * (n - 1) + 1,
                     indexes[n][2] + 5 * (n - 1)).panic
            \/ Slice(str, indexes[n][2] + 5 * (n - 1) + 1, Len(str)).panic
         THEN [s |-> <<>>, outcome |-> "panic"]
    ELSE FixFrom(Slice(str, 0, indexes[n][1] + 5 * (n - 1)).s
                    \o <<"A", "R", "R", "A", "Y", "(">>
                    \o Slice(str, indexes[n][1] + 5 * (n - 1) + 1,
                             indexes[n][2] + 5 * (n - 1)).s
                    \o <<")">>
                    \o Slice(str, indexes[n][2] + 5 * (n - 1) + 1, Len(str)).s,
                 indexes, n + 1)

\* FixIdiomaticArray: `if err != nil { panic(err) }`
FixIdiomaticArray(str) ==
    IF FindArrayIndex(str).err # NoErr THEN [s |-> <<>>, outcome |-> "panic"]
    ELSE FixFrom(str, FindArrayIndex(str).output, 1)

InitArrays ==
    /\ \E str \in Texts : input = str
    /\ AuxStart("arrays")

\* New with the option idomaticArrays: the rewrite of the query text; New
\* has no recover, a panic of the rewrite leaves New without a return
RunArrays ==
    /\ stage = "arrays"
    /\ output' = FixIdiomaticArray(input)
    /\ stage' = "rewritten"
    /\ UNCHANGED <<input, optvars, vmut, gpc, main>>

SpecArrays == InitArrays /\ [][RunArrays]_vars

\* ---------------------------------------------------------------- backward navigation
MaxScopeValue == 2
ScopeKeys == {"k", "j"}
\* objects with some of the keys k, j, here as maps by value
ScopeMaps ==
    UNION {[ks -> {Num(n) : n \in 1..MaxScopeValue}] : ks \in SUBSET ScopeKeys}

\* Reader(data, selectors) for key selectors; `<-` is a key like any other
RECURSIVE Reader(_, _)
Reader(data, selectors) ==
    IF Len(selectors) = 0 THEN data
    ELSE IF data = Null \/ "t" \in DOMAIN data THEN Null
    ELSE Reader(MapGet(data, Head(selectors)), Tail(selectors))

\* a SubqueryExpr that lets `<-` lead to the current row itself
BackwardToRow(current, data) == MapPut(current, "<-", current)
\* SubqueryExpr: current["<-"] = query.data
BackwardNavigation(current, data) == MapPut(current, "<-", data)

InitScope ==
    /\ \E data \in ScopeMaps, current \in ScopeMaps, key \in ScopeKeys :
          input = [data |-> data, current |-> current, key |-> key]
    /\ AuxStart("scope")

\* SubqueryExpr for the row current of a query on data, the subquery
\* (prepared on current as its data) resolving the paths `key` and `<-key`
RunScope ==
    /\ stage = "scope"
    /\ output' =
          [plain |-> Reader(BackwardNavigation(input.current, input.data),
                            <<input.key>>),
           back |-> Reader(BackwardNavigation(input.current, input.data),
                           <<"<-", input.key>>)]
    /\ stage' = "resolved"
    /\ UNCHANGED <<input, optvars, vmut, gpc, main>>

SpecScope == InitScope /\ [][RunScope]_vars

\* ---------------------------------------------------------------- aggregates
MaxAggrRows == 2
MaxAggrValue == 2
AggrColumns == {"a", "b"}
\* the FROM-set: rows {a: .., b: ..}
AggrFrom ==
    UNION {[1..n -> [AggrColumns -> 0..MaxAggrValue]] : n \in 1..MaxAggrRows}
\* SUM(arg), MAX(arg)
AggrCalls == [fn : {"sum", "max"}, arg : AggrColumns]

RECURSIVE SumFunc(_)
SumFunc(slice) == IF slice = <<>> THEN 0 ELSE slice[1] + SumFunc(Tail(slice))
\* MaxFunc over a slice that is not empty
MaxFunc(slice) ==
    CHOOSE x \in {slice[i] : i \in 1..Len(slice)} :
       \A i \in 1..Len(slice) : slice[i] <= x
AggrFunction(name, slice) == IF name = "sum" THEN SumFunc(slice) ELSE MaxFunc(slice)

\* AggrFuncArgReader with current = {"*": query.from}: the argument is a
\* column name, read from every row of the slice
AggrFuncArgReader(from, arg) == [i \in 1..Len(from) |-> from[i][arg]]

\* AggrFunExpr of a query without GROUP BY: the result is looked up in, and
\* stored to, query.singletonExecutions under the function's name
AggrFunExpr(singletonExecutions, from, expr) ==
    IF expr.fn \in DOMAIN singletonExecutions
    THEN [memo |-> singletonExecutions, v |-> singletonExecutions[expr.fn]]
    ELSE LET value == AggrFunction(expr.fn, AggrFuncArgReader(from, expr.arg))
         IN  [memo |-> MapPut(singletonExecutions, expr.fn, value), v |-> value]

\* SelectExpr over the aggregate calls of the select list, in order
RECURSIVE AggrSelect(_, _, _, _)
AggrSelect(singletonExecutions, from, sel, data) ==
    IF Len(data) = Len(sel) THEN data
    ELSE LET r == AggrFunExpr(singletonExecutions, from, sel[Len(data) + 1])
         IN  AggrSelect(r.memo, from, sel, Append(data, r.v))

InitAggr ==
    /\ \E from \in AggrFrom : \E sel \in [1..2 -> AggrCalls] :
          input = [from |-> from, sel |-> sel]
    /\ AuxStart("aggregate")

\* Exec of `SELECT fn(arg), fn(arg) FROM t`
RunAggr ==
    /\ stage = "aggregate"
    /\ output' = AggrSelect(EmptyMap, input.from, input.sel, <<>>)
    /\ stage' = "aggregated"
    /\ UNCHANGED <<input, optvars, vmut, gpc, main>>

SpecAggr == InitAggr /\ [][RunAggr]_vars

\* ---------------------------------------------------------------- IN / NOT IN
MaxInValue == 1
MaxTuple == 2
Digits == <<"0", "1", "2", "3">>
String(s) == [t |-> "str", s |-> s]
\* the values of a column or of a tuple element: nil, float64 numbers (a
\* numeric literal is parsed to float64) and strings, some of them numerals
InValues ==
    {Null} \cup {Number("float64", 2 * n) : n \in 0..MaxInValue}
           \cup {String(Digits[n + 1]) : n \in 0..MaxInValue} \cup {String("a")}
Tuples == UNION {[1..n -> InValues] : n \in 1..MaxTuple}

\* fmt.Sprintf("%v", v) of the values above
Sprintf(v) ==
    CASE v.t = "num" -> Digits[(v.h \div 2) + 1]
      [] v.t = "str" -> v.s
      [] OTHER -> "<nil>"

\* compare.Compare(leftValue, value) == 0: two numbers go through Cmp, every
\* other pair through strings.Compare of the two formatted operands
ComparesEqual(leftValue, value) ==
    IF leftValue.t = "num" /\ value.t = "num" THEN Compare(leftValue, value) = 0
    ELSE Sprintf(leftValue) = Sprintf(value)

\* `leftValue == fmt.Sprintf("%v", value)`: an interface value equals a
\* string only when it holds a string
EqualsFormatted(leftValue, value) ==
    leftValue.t = "str" /\ leftValue.s = Sprintf(value)

\* ComparisonExpr, the operators InOp and NotInOp over a value tuple
ComparisonExpr(leftValue, rightArray, operator) ==
    IF operator = "InOp"
    THEN \E i \in 1..Len(rightArray) : ComparesEqual(leftValue, rightArray[i])
    ELSE ~ \E i \in 1..Len(rightArray) : EqualsFormatted(leftValue, rightArray[i])

InitIn ==
    /\ \E left \in InValues : \E right \in Tuples :
          input = [left |-> left, right |-> right]
    /\ AuxStart("in")

\* Exec of the two queries `... WHERE left IN right` and `... WHERE left NOT
\* IN right` over the same row
RunIn ==
    /\ stage = "in"
    /\ output' = [in |-> ComparisonExpr(input.left, input.right, "InOp"),
                  notIn |-> ComparisonExpr(input.left, input.right, "NotInOp")]
    /\ stage' = "decided"
    /\ UNCHANGED <<input, optvars, vmut, gpc, main>>

SpecIn == InitIn /\ [][RunIn]_vars

\* ---------------------------------------------------------------- properties
\* the goroutines a wait group counts
Counted == {t \in 1..Len(tasks) : tasks[t].kind \in {"async", "spinasync"}}
FireAndForget == {"spin", "spinasync"}

\* whether a *any is observable in a value, at any nesting depth
RECURSIVE HasDeferred(_)
HasDeferred(v) ==
    CASE v.t = "ptr" -> TRUE
      [] v.t = "arr" -> \E i \in 1..Len(v.a) : HasDeferred(v.a[i])
      [] v.t = "map" -> \E k \in DOMAIN heap[v.m] : HasDeferred(heap[v.m][k])
      [] OTHER -> FALSE

\* the SELECT whose select list holds the call under test
InnerSelect ==
    IF stmt.with # <<>> THEN stmt.with[1].stmt
    ELSE IF stmt.from.k = "derived" THEN stmt.from.stmt
    ELSE stmt
TheCall == InnerSelect.sel[1]
\* the call is evaluated for at least one row
Evaluated == InnerSelect.from.name = "dual" \/ Len(heap[1]["t"].a) > 0
Returned == pc = "done"

\* C1: when Exec hands its result to the caller, every ASYNC and SPINASYNC
\* goroutine started during the execution has ended
C1_WorkDoneAtReturn == Returned => \A t \in Counted : tasks[t].done

\* C2: after a successful Exec no *any placeholder is observable in the
\* returned rows, at any nesting depth
C2_NoDeferredInResult == Returned => ~HasDeferred(result)

\* C3: when the function of an ASYNC call returns an error, Exec does not
\* return successfully
C3_AsyncErrorReturned ==
    Returned => \A t \in 1..Len(tasks) :
                   tasks[t].kind = "async" => FunctionErr(tasks[t].fn, "async") = NoErr

\* C4: with an errors callback configured, the error of every SPIN or
\* SPINASYNC goroutine that has ended was passed to the callback, once, and
\* no such error is what New or Exec returns
C4_SpinErrorsReported ==
    opts.errors =>
       /\ \A kind \in FireAndForget :
             Cardinality({i \in 1..Len(reported) : reported[i] = FunctionError(kind)})
             = Cardinality({t \in 1..Len(tasks) :
                              /\ tasks[t].done
                              /\ tasks[t].kind = kind
                              /\ FunctionErr(tasks[t].fn, kind) # NoErr})
       /\ execErr.qual \notin FireAndForget
C4_Witness ==
    /\ Returned
    /\ opts.errors
    /\ Len(reported) >= 2
    /\ \E t \in 1..Len(tasks) : tasks[t].kind = "spinasync"

\* C5: when Exec returns, every SPINASYNC goroutine has ended
C5_SpinAsyncDoneAtReturn ==
    Returned => \A t \in 1..Len(tasks) : tasks[t].kind = "spinasync" => tasks[t].done

\* C6: an immediate function called with ASYNC, SPIN or SPINASYNC is never
\* invoked, no goroutine is started for it and no wait group counts it (the
\* only goroutines are the bridges of derived tables, the only counts
\* theirs); where the call is evaluated the query fails with
\* ExpectationFailed
C6_ImmediateNotScheduled ==
    (TheCall.k = "fun" /\ TheCall.qual \in {"async", "spin", "spinasync"}
       /\ TheCall.fn \in immediateFunctions) =>
       /\ \A t \in 1..Len(tasks) : tasks[t].kind = "bridge"
       /\ \A q \in 1..Len(qs) :
             qs[q].wg = Cardinality({t \in 1..Len(tasks) :
                                       ~tasks[t].done /\ tasks[t].q = q})
       /\ \A i \in 1..Len(calls) : calls[i].fn # TheCall.fn
       /\ Evaluated => pc \in {"init", "built", "failed"}
       /\ (Evaluated /\ stmt # InnerSelect) => pc # "built"
       /\ pc = "failed" => execErr = EXPECTATION_FAILED
C6_Witness ==
    /\ TheCall.k = "fun" /\ TheCall.qual = "spinasync" /\ TheCall.fn \in immediateFunctions
    /\ pc = "failed"
    /\ execErr = EXPECTATION_FAILED
    /\ Len(qs) > 1

\* C7: the post-processors of the query run one at a time in the order they
\* were queued, and the first of them only after the query's wait group has
\* come to zero
C7_PostProcessorsInOrder ==
    [][/\ (pc' = "post" /\ pc # "post") => (qs[top].wg = 0 /\ ran = 0)
       /\ ran' # ran =>
             /\ pc = "post"
             /\ ran' = ran + 1
             /\ heap' = RunPostProcessor(Ctx({}), qs[top].pp[ran']).heap]_vars
C7_Witness ==
    /\ Returned
    /\ ran >= 2
    /\ \E i \in 1..Len(qs[top].pp) : qs[top].pp[i].k = "fill"
    /\ \E i \in 1..Len(qs[top].pp) : qs[top].pp[i].k = "delete"

\* C8: a function called with ONCE is invoked at most once per query
C8_OnceInvokedOnce ==
    \A q \in 1..Len(qs) : \A fn \in functions :
       Cardinality({i \in 1..Len(calls) :
                      calls[i] = [fn |-> fn, qual |-> "once", q |-> q]}) <= 1

\* C9: when a completed callback is configured and Exec has returned, the
\* callback has been invoked exactly once
C9_CompletedOnce == (Returned /\ opts.completed) => completed = 1

\* C10: a CTE's subquery is executed at most once
C10_CteRunsOnce == cteRuns <= 1

\* the rows of the caller's document: the Maps the heap held before New
DocRows == 2..(Len(heap[1]["t"].a) + 1)

\* C11: after New and Exec have returned, the root object of the caller's
\* document and every row of it have the keys and values they had before
\* the query was constructed
C11_DocumentUnchanged ==
    Returned => \E depth \in Depths :
                   \A i \in 1..Len(Document(depth)) : heap[i] = Document(depth)[i]

\* the rows of a returned value, at any nesting depth
RECURSIVE RowsOf(_)
RowsOf(v) ==
    CASE v.t = "map" -> {v.m}
      [] v.t = "arr" -> UNION {RowsOf(v.a[i]) : i \in 1..Len(v.a)}
      [] OTHER -> {}

\* C12: after Exec returns, no row of the document and no row of the result
\* contains the key "<-"
C12_NoBackwardEntryLeft ==
    Returned => \A m \in DocRows \cup RowsOf(result) : "<-" \notin DOMAIN heap[m]

\* C13: while a setvar call holds the vars map for writing, no other getvar
\* or setvar call is at the map; every getvar call at the map holds the read
\* lock
C13_VarsExclusive ==
    \A g \in DOMAIN gpc :
       /\ gpc[g].at = "locked" =>
             /\ vmut.writer
             /\ \A h \in DOMAIN gpc \ {g} : gpc[h].at = "idle"
       /\ gpc[g].at = "rlocked" =>
             /\ ~vmut.writer
             /\ vmut.readers = Cardinality({h \in DOMAIN gpc : gpc[h].at = "rlocked"})
C13_Witness ==
    /\ stage = "vars"
    /\ \E g, h \in DOMAIN gpc :
          /\ gpc[g].at = "locked"
          /\ gpc[h].got = Num(MaxValue)
          /\ optvars = [k \in {"k"} |-> Num(1)]

\* C14: two executions of the same query on the same document return the
\* group rows of GROUP BY in the same order
C14_SameOrderTwice ==
    (stage = "group" /\ Len(output) = 2) => output[1] = output[2]

\* C15: for GROUP BY without HAVING every input row is in exactly one
\* group's "*" array, once; no two groups have equal key tuples; the sizes
\* of the "*" arrays add up to the number of input rows
RECURSIVE SumOfCounts(_, _)
SumOfCounts(rows, n) ==
    IF n = 0 THEN 0 ELSE Len(rows[n]["*"].a) + SumOfCounts(rows, n - 1)
IsPartition(current, groupDefinition, rows) ==
    /\ \A i \in 1..Len(current) :
          Cardinality({<<n, m>> \in (1..Len(rows)) \X (1..Len(current)) :
                         /\ m <= Len(rows[n]["*"].a)
                         /\ rows[n]["*"].a[m] = current[i]}) = 1
    /\ \A a, b \in 1..Len(rows) :
          (\A key \in groupDefinition : rows[a][key] = rows[b][key]) => a = b
    /\ SumOfCounts(rows, Len(rows)) = Len(current)
Min(a, b) == IF a < b THEN a ELSE b
C16_LimitOffsetWindow ==
    (stage = "limited" /\ input.limitDefinition # NoLimit
       /\ input.offsetDefinition # NoLimit) =>
       /\ output.err = NoErr
       /\ output.rows = SubSeq(input.rs, input.offsetDefinition + 1,
                               Min(input.offsetDefinition + input.limitDefinition,
                                   Len(input.rs)))

\* C19: for numeric operands of any integer or floating type compare(a, b)
\* is -1, 0 or 1 as float64(a) is less than, equal to or greater than
\* float64(b)
C19_ComparedAsFloat64 ==
    stage = "compared" =>
       output = (IF input.a.h < input.b.h THEN -1
                 ELSE IF input.a.h = input.b.h THEN 0 ELSE 1)

\* position of the input row id in the sorted output
PositionOf(id) == CHOOSE i \in 1..Len(output) : output[i].id = id
TiedRows(a, b) ==
    /\ ~SortCompare(input.slice, a, b, input.orderBy)
    /\ ~SortCompare(input.slice, b, a, input.orderBy)

KeyOf(i, n) == input.slice[i][input.orderBy[n].Key]
Direction(n) == IF input.orderBy[n].Value THEN -1 ELSE 1
Less(i, j) == SortCompare(input.slice, i, j, input.orderBy)
\* what the second (path, direction) pair decides for rows tied on the first
NextPair(i, j) ==
    /\ Len(input.orderBy) > 1
    /\ KeyOf(i, 2) # Null
    /\ \/ KeyOf(j, 2) = Null
       \/ Compare(KeyOf(i, 2), KeyOf(j, 2)) = Direction(2)

\* C18 (as stated): a null key on the left makes the left row sort first, a
\* null key on the right makes the right row sort last, equal keys pass the
\* decision to the next (path, direction) pair
C18_NullLeftFirst ==
    (stage \in {"sort", "sorted"} /\ Len(input.orderBy) > 0) =>
       \A i, j \in 1..Len(input.slice) :
          /\ KeyOf(i, 1) = Null => Less(i, j)
          /\ KeyOf(j, 1) = Null => Less(i, j)
          /\ (KeyOf(i, 1) # Null /\ KeyOf(j, 1) # Null
                /\ Compare(KeyOf(i, 1), KeyOf(j, 1)) = 0)
                => (Less(i, j) <=> NextPair(i, j))

\* C18 (amended): a null key on the left never lets the left row sort before
\* the right row, a null key on the right lets a left row with a key sort
\* before it, so rows with a null key come after all rows with a key in
\* either direction; equal keys pass the decision to the next pair
C18_NullsLast ==
    (stage \in {"sort", "sorted"} /\ Len(input.orderBy) > 0) =>
       /\ \A i, j \in 1..Len(input.slice) :
             /\ KeyOf(i, 1) = Null => ~Less(i, j)
             /\ (KeyOf(i, 1) # Null /\ KeyOf(j, 1) = Null) => Less(i, j)
             /\ (KeyOf(i, 1) # Null /\ KeyOf(j, 1) # Null
                   /\ Compare(KeyOf(i, 1), KeyOf(j, 1)) = 0)
                   => (Less(i, j) <=> NextPair(i, j))
       /\ \A i, j \in 1..Len(output) :
             (i < j /\ output[i][input.orderBy[1].Key] = Null)
                => output[j][input.orderBy[1].Key] = Null
C18_Witness ==
    /\ stage = "sorted"
    /\ Len(input.orderBy) = 2
    /\ \E i, j \in 1..Len(input.slice) :
          /\ i < j /\ KeyOf(i, 1) = Null /\ KeyOf(j, 1) # Null
          /\ PositionOf(j) < PositionOf(i)
    /\ \E i, j \in 1..Len(input.slice) :
          /\ KeyOf(i, 1) # Null /\ KeyOf(i, 1) = KeyOf(j, 1)
          /\ Less(i, j)

Occurrences(rows, row) == Cardinality({n \in 1..Len(rows) : rows[n] = row})
NoMatch(l) == \A n \in 1..Len(input.right) : l[KeyLeft] # input.right[n][KeyRight]

BuildErrorArose ==
    \/ ExecJoinErr(input.left, input.right, input.on) # NoErr
    \/ \E i \in 1..Len(input.group) : BuildColumnName(input.group[i]).err # NoErr

\* C21: an evaluation error that arises while a clause is built (a JOIN ON
\* predicate or a GROUP BY key included) makes New return an error
C21_BuildErrorsReturned ==
    (stage = "built" /\ BuildErrorArose) => output.err # NoErr

\* C22: a division (`/` or DIV) whose right operand is zero produces an
\* error that Exec returns, and no numeric value
C22_DivisionByZeroFails ==
    (/\ stage = "evaluated"
     /\ input.op \in {"DivOp", "IntDivOp"}
     /\ input.left # Null
     /\ input.right = Num(0))
       => (output.e # NoErr /\ output.v = Null)

\* C23: with the idiomatic-arrays rewrite enabled, a `]` outside quotes with
\* no matching `[` makes the rewrite fail and New return an error
C23_UnmatchedBracketReturnsError ==
    (stage = "rewritten" /\ FindArrayIndex(input).err # NoErr)
       => output.outcome = "error"

IsNested ==
    /\ stmt.k = "select"
    /\ \/ stmt.from.k = "derived"
       \/ \E i \in 1..Len(stmt.sel) : stmt.sel[i].k = "sub"
\* the post-processors the top-level pass has run
RanByTop == {qs[top].pp[j] : j \in 1..ran}

\* C25: the work of a nested evaluation is carried up into the enclosing
\* query: when the top-level Exec returns, every ASYNC and SPINASYNC goroutine
\* started by any query has ended and every post-processor queued by any query
\* has been run by the top-level pass
C25_NestedWorkCarriedUp ==
    (Returned /\ IsNested) =>
       /\ \A t \in Counted : tasks[t].done
       /\ \A q \in 1..Len(qs) : \A i \in 1..Len(qs[q].pp) : qs[q].pp[i] \in RanByTop

\* the goroutines that write the cell
WritersOf(cell) ==
    {t \in 1..Len(tasks) : tasks[t].kind = "async" /\ tasks[t].cell = cell}

\* C26: the cell of an ASYNC call is written exactly once, by its own
\* goroutine, and no post-processor (back-fill or AWAIT) reads a cell whose
\* goroutine still runs
C26_CellsWrittenOnceBeforeRead ==
    /\ access.unready = {}
    /\ Len(access.writes) = Len(cells)
    /\ \A t \in 1..Len(tasks) :
          tasks[t].kind = "async" =>
             /\ WritersOf(tasks[t].cell) = {t}
             /\ access.writes[tasks[t].cell] = (IF tasks[t].done THEN 1 ELSE 0)

\* C27: every object row of the result of SELECT id FROM t WHERE f(id) > 11
\* satisfies the WHERE predicate, the rows that come from array-valued
\* elements of the FROM-set included
C27_WhereFiltersEveryRow ==
    (pc = "done" /\ stmt = Filtered) =>
       \A m \in RowsOf(result) :
          FunctionValue(stmt.where.fn, MapGet(heap[m], "id")).n > stmt.where.than

\* C28: without GROUP BY every aggregate call of the select list returns the
\* aggregate of its own argument over the FROM-set
C28_AggregateOfOwnArgument ==
    stage = "aggregated" =>
       \A i \in 1..Len(input.sel) :
          output[i] = AggrFunction(input.sel[i].fn,
                                   AggrFuncArgReader(input.from, input.sel[i].arg))

\* C29: the comparator is antisymmetric: compare(a, b) = -compare(b, a) for
\* all values a and b
C29_CompareAntisymmetric ==
    stage = "compared" => output = 0 - Compare(input.b, input.a)

\* C30: for every left value and value tuple, x NOT IN T is the logical
\* negation of x IN T
C30_NotInNegatesIn ==
    stage = "decided" => output.notIn = ~output.in
====
